---- MODULE Spec2Model ----
(***************************************************************************)
(* Model of UkMapReduceTimelineTask (src/tl.py): the map stage             *)
(* (llm_predict_batch, map_answers), the per-document merge                *)
(* (merge_timeline_rule), the citation remapping, the duplicate filter and *)
(* the source population of get_consolidated_chronology,                   *)
(* _postprocess_chronology, and the truncation and the rendering of        *)
(* generate_answer.                                                        *)
(*                                                                         *)
(* Five specifications share the module:                                   *)
(*   Spec        the run() pipeline of one query, with the thread pool of  *)
(*               llm_predict_batch, up to the EVENT_NOT_FOUND response of  *)
(*               a query without content or the start of the extraction;   *)
(*   MergeSpec   merge_timeline_rule applied to bounded fragment lists;    *)
(*   RemapSpec   the citation remapping loop applied to bounded texts;     *)
(*   AnswerSpec  generate_answer from the merge to the response, with the  *)
(*               extraction and sort calls as nondeterministic backends;   *)
(*   DedupSpec   the duplicate filter and the source population applied    *)
(*               to bounded sorted event lists.                            *)
(* The variables of the specifications that are not running keep their     *)
(* initial value.                                                          *)
(***************************************************************************)
EXTENDS Integers, Sequences, FiniteSets, TLC

\* ----------------------------------------------------------------- bounds
\* Largest number of documents of one query.
MaxDocs == 2
\* Largest number of chunks, hence of prompts, of one query.
MaxPrompts == 3
\* Largest value tried for the max_workers parameter of llm_predict_batch.
MaxWorkersCfg == 2

VARIABLES
    \* --- Spec: run / map_answers / llm_predict_batch
    pc,                 \* position of the calling thread in run()
    document_chunks,    \* per document, its number of chunks
    max_workers,        \* the max_workers argument of llm_predict_batch
    submitted,          \* number of prompts passed to executor.submit
    status,             \* per future: "none" | "queued" | "running" | "done"
    llm_answer,         \* per future: "none" | "text" | "sentinel" | "empty" | "raise"
    completion_order,   \* history: futures in the order their calls ended
    collected,          \* number of futures the result loop has consumed
    results,            \* the list llm_predict_batch builds
    map_answers,        \* per document, the fragments map_answers appended
    \* --- MergeSpec: merge_timeline_rule(map_answers)
    merged_answers,     \* the list merge_timeline_rule returns
    merge_input,        \* history: the argument as it was when the call began
    \* --- RemapSpec: the remapping loop of get_consolidated_chronology
    merged_map_answers, \* per document, its merged text
    map_answers_regex,  \* the remapped texts of the documents with content
    no_relevant_count,  \* number of documents skipped as sentinel
    final_chronology,   \* the corpus handed to the extractor, or "unassigned"
    pieces_used,        \* number of pieces the merged texts were built from
    \* --- AnswerSpec, DedupSpec: generate_answer / get_consolidated_chronology
    docviewer,          \* the toggle ASK_DOC_DOCVIEWER of _postprocess_chronology
    json_answer,        \* line 274: what the extraction call returned
    consolidated_json_answer, \* line 275: what the sort call returned
    filtered,           \* lines 277-296: the list get_consolidated_chronology returns
    consolidated_chronology,  \* line 99: what _postprocess_chronology returned
    response,           \* what generate_answer returns, "none" before it does
    event_limit,        \* config.EVENT_LIMIT
    event_has_intercept, \* lines 103-106: the chronology was cut
    consolidated_answer \* line 108: the text get_consolidated_answer returns

vars_map == <<pc, document_chunks, max_workers, submitted, status, llm_answer,
              completion_order, collected, results, map_answers>>

vars_batch == <<document_chunks, max_workers, submitted, status, llm_answer,
                completion_order, collected, results>>

vars_merge == <<merged_answers, merge_input>>

vars_remap == <<merged_map_answers, map_answers_regex, no_relevant_count,
                final_chronology, pieces_used>>

vars_answer == <<docviewer, json_answer, consolidated_json_answer, filtered,
                 consolidated_chronology, response>>

vars_render == <<event_limit, event_has_intercept, consolidated_answer>>

vars == <<vars_map, vars_merge, vars_remap, vars_answer, vars_render>>

BatchIdle ==
    /\ document_chunks = <<>>
    /\ max_workers = 0
    /\ submitted = 0
    /\ status = <<>>
    /\ llm_answer = <<>>
    /\ completion_order = <<>>
    /\ collected = 0
    /\ results = <<>>

MergeIdle == merged_answers = <<>> /\ merge_input = <<>>

RemapIdle ==
    /\ merged_map_answers = <<>>
    /\ map_answers_regex = <<>>
    /\ no_relevant_count = 0
    /\ final_chronology = "unassigned"
    /\ pieces_used = 0

AnswerIdle ==
    /\ docviewer = FALSE
    /\ json_answer = [kind |-> "unassigned", events |-> <<>>]
    /\ consolidated_json_answer = [kind |-> "unassigned", events |-> <<>>]
    /\ filtered = [kind |-> "unassigned", events |-> <<>>]
    /\ consolidated_chronology = [kind |-> "unassigned", events |-> <<>>]
    /\ response = "none"
    /\ event_limit = 0
    /\ event_has_intercept = FALSE
    /\ consolidated_answer = <<>>

\* ------------------------------------------------------------- helpers
Max(a, b) == IF a >= b THEN a ELSE b

RECURSIVE SumSeq(_)
SumSeq(s) == IF s = <<>> THEN 0 ELSE Head(s) + SumSeq(Tail(s))

\* Sequence of the elements of the finite set of integers S, ascending.
RECURSIVE Ascending(_)
Ascending(S) ==
    IF S = {} THEN <<>>
    ELSE LET m == CHOOSE x \in S : \A y \in S : x <= y
         IN <<m>> \o Ascending(S \ {m})

\* ------------------------------------------------- prompts and scopes
\* _get_map_prompts: one prompt per (document, chunk), documents in order and
\* chunks in order inside a document; prompts are numbered from 0.
NumPrompts == SumSeq(document_chunks)

PromptIds == 0 .. (NumPrompts - 1)

\* 0-based index of the first prompt of document d (1-based d).
FirstPrompt(d) == SumSeq(SubSeq(document_chunks, 1, d - 1))

\* The document (1-based) whose chunk prompt i was built from.
DocOfPrompt(i) ==
    CHOOSE d \in 1 .. Len(document_chunks) :
        FirstPrompt(d) <= i /\ i < FirstPrompt(d) + document_chunks[d]

\* document_scopes as run() receives them from _get_chunk_infos: per document
\* the pair of its first and last prompt index (both inclusive, 0-based).
\* map_answers reads only the second component, with "i > scope[1]".
DocumentScopes ==
    [d \in 1 .. Len(document_chunks) |->
        <<FirstPrompt(d), FirstPrompt(d) + document_chunks[d] - 1>>]

\* The (non-empty) response text the backend gave for prompt i; the text is
\* opaque here and is identified by the prompt that produced it.
Response(i) == <<"response", i>>

\* map_answers wraps every response: f"<chronology>\n{response}\n</chronology>".
Chronology(r) == <<"<chronology>", r, "</chronology>">>

\* ------------------------------------------------------ thread pool
\* Line 402: max_workers = max(max_workers, len(prompts)).
PoolSize == Max(max_workers, NumPrompts)

Running == {i \in PromptIds : status[i] = "running"}

Queued == {i \in PromptIds : status[i] = "queued"}

\* future.result() returns (or raises) only once the call has ended;
\* the executor's __exit__ (shutdown(wait=True)) waits on the same condition.
FutureDoneNoWait(i) == TRUE

FutureDone(i) == status[i] = "done"

\* "for future in tasks": the futures are consumed in submission order.
NextFutureAsCompleted ==
    IF Len(completion_order) > collected
    THEN completion_order[collected + 1] ELSE -1

NextFuture == IF collected < NumPrompts THEN collected ELSE -1

\* ------------------------------------------------------------------ text
\* A text is a sequence of symbols.  A symbol is one character, or a piece of
\* text the code only ever treats as a whole (a tag, the sentinel phrase, a
\* word of content).
NL == "\n"

SP == " "

Whitespace == {NL, SP}

\* 1-based position of the first occurrence of sep in s, 0 when there is none.
IndexOf(s, sep) ==
    LET hits == {p \in 1 .. (Len(s) - Len(sep) + 1) :
                    SubSeq(s, p, p + Len(sep) - 1) = sep}
    IN IF hits = {} THEN 0 ELSE CHOOSE p \in hits : \A q \in hits : p <= q

\* Python's "sub in s".
Contains(s, sub) == IndexOf(s, sub) > 0

\* s.split(sep)[0]: the text before the first sep, all of s when there is none.
SplitItem0(s, sep) ==
    IF IndexOf(s, sep) = 0 THEN s ELSE SubSeq(s, 1, IndexOf(s, sep) - 1)

\* Whether s.split(sep)[1] exists; it raises IndexError otherwise.
HasSplitItem1(s, sep) == IndexOf(s, sep) > 0

\* s.split(sep)[1]: the text between the first sep and the next one (or the end).
SplitItem1(s, sep) ==
    SplitItem0(SubSeq(s, IndexOf(s, sep) + Len(sep), Len(s)), sep)

\* str.strip(): leading and trailing whitespace removed.
RECURSIVE LStrip(_)
LStrip(s) == IF s # <<>> /\ Head(s) \in Whitespace THEN LStrip(Tail(s)) ELSE s

RECURSIVE RStrip(_)
RStrip(s) ==
    IF s # <<>> /\ s[Len(s)] \in Whitespace
    THEN RStrip(SubSeq(s, 1, Len(s) - 1)) ELSE s

Strip(s) == RStrip(LStrip(s))

\* sep.join(parts)
RECURSIVE Join(_, _)
Join(parts, sep) ==
    IF parts = <<>> THEN <<>>
    ELSE IF Len(parts) = 1 THEN parts[1]
    ELSE parts[1] \o sep \o Join(Tail(parts), sep)

\* Number of leading symbols of s that are sym.
RECURSIVE RunLen(_, _)
RunLen(s, sym) ==
    IF s # <<>> /\ Head(s) = sym THEN 1 + RunLen(Tail(s), sym) ELSE 0

\* --------------------------------------------------- merge_timeline_rule
NO_RELEVANT_MESSAGE == <<"No relevant information found">>

TIMELINE_OPEN == <<"<timeline>">>

TIMELINE_CLOSE == <<"</timeline>">>

\* Largest number of fragments, over all documents, handed to
\* merge_timeline_rule.
MaxFrags == 3

\* The fragments tried as elements of map_answers.
Fragments == {
    \* the bare sentinel
    NO_RELEVANT_MESSAGE,
    \* a response whose timeline section is the sentinel
    <<"<timeline>", NL, "No relevant information found", NL, "</timeline>">>,
    \* a wrapped response with one event and a local citation
    <<"<chronology>", NL, "<timeline>", NL, "A", "[^1]", NL, "</timeline>", NL,
      "</chronology>">>,
    \* a section holding a run of blank lines
    <<"<timeline>", "B", NL, NL, NL, "C", "</timeline>">>,
    \* a response without any tag
    <<"D">>,
    \* timeline content in a response that also holds the sentinel phrase
    <<"<summary>", "No relevant information found", "</summary>",
      "<timeline>", "E", "</timeline>">>,
    \* an empty section
    <<"<timeline>", "</timeline>">>,
    \* an opening tag that is never closed
    <<"<timeline>", SP, "F">>,
    \* two sections in one response
    <<"<timeline>", "G", "</timeline>", "<timeline>", "H", "</timeline>">>
}

\* uk_plan.chains.ask_doc.utils.postprocess_chronology: runs of three or more
\* newlines become one blank line.
RECURSIVE postprocess_chronology(_)
postprocess_chronology(s) ==
    IF s = <<>> THEN <<>>
    ELSE IF RunLen(s, NL) >= 3
         THEN <<NL, NL>> \o postprocess_chronology(SubSeq(s, RunLen(s, NL) + 1, Len(s)))
         ELSE <<Head(s)>> \o postprocess_chronology(Tail(s))

\* Lines 342 and 345: f"{self.NO_RELEVANT_MESSAGE}."
NoRelevantAnswer == NO_RELEVANT_MESSAGE \o <<".">>

\* Line 333: the filter of the first comprehension.
KeepChunkAlways(one_doc_chunk) == TRUE

KeepChunk(one_doc_chunk) == ~Contains(one_doc_chunk, NO_RELEVANT_MESSAGE)

\* Line 336: split("<timeline>")[1].split("</timeline>")[0].strip(), for a
\* chunk that holds "<timeline>".
TimelineSection(one_doc_chunk) ==
    Strip(SplitItem0(SplitItem1(one_doc_chunk, TIMELINE_OPEN), TIMELINE_CLOSE))

\* Lines 331-345: the body of the loop for one document.  A kept chunk without
\* "<timeline>" raises IndexError in the second comprehension, and the except
\* branch appends the sentinel answer.
MergeOneDocReversed(one_doc_chunks) ==
    LET kept == SelectSeq(one_doc_chunks, KeepChunk)
    IN IF \E p \in 1 .. Len(kept) : ~HasSplitItem1(kept[p], TIMELINE_OPEN)
       THEN NoRelevantAnswer
       ELSE LET sections == [p \in 1 .. Len(kept) |->
                                TimelineSection(kept[Len(kept) + 1 - p])]
                one_doc_content == postprocess_chronology(Join(sections, <<NL>>))
            IN IF one_doc_content = <<>> THEN NoRelevantAnswer ELSE one_doc_content

MergeOneDoc(one_doc_chunks) ==
    LET kept == SelectSeq(one_doc_chunks, KeepChunk)
    IN IF \E p \in 1 .. Len(kept) : ~HasSplitItem1(kept[p], TIMELINE_OPEN)
       THEN NoRelevantAnswer
       ELSE LET sections == [p \in 1 .. Len(kept) |-> TimelineSection(kept[p])]
                one_doc_content == postprocess_chronology(Join(sections, <<NL>>))
            IN IF one_doc_content = <<>> THEN NoRelevantAnswer ELSE one_doc_content

\* Lines 329-347: the loop over the documents, appending one answer each.
RECURSIVE MergeLoop(_, _)
MergeLoop(rest, merged) ==
    IF rest = <<>> THEN merged
    ELSE MergeLoop(Tail(rest), Append(merged, MergeOneDoc(Head(rest))))

merge_timeline_rule(answers) == MergeLoop(answers, <<>>)


\* ------------------------------------------------------ citation remapping
Digits == {"0", "1", "2", "3", "4", "5", "6", "7", "8", "9"}

DigitSymbols == <<"0", "1", "2", "3", "4", "5", "6", "7", "8", "9">>

\* str(n) for a natural number n, as used by the f-string of line 263.
RECURSIVE Str(_)
Str(n) ==
    IF n < 10 THEN <<DigitSymbols[n + 1]>>
    ELSE Str(n \div 10) \o <<DigitSymbols[(n % 10) + 1]>>

\* Number of leading digits of s.
RECURSIVE DigitRun(_)
DigitRun(s) ==
    IF s # <<>> /\ Head(s) \in Digits THEN 1 + DigitRun(Tail(s)) ELSE 0

\* Line 262: length of the match of r"\[\^(\d+)\]" at the start of s, 0 when
\* the pattern does not match there.
LocalTokenMatchOneDigit(s) ==
    IF Len(s) >= 4 /\ s[1] = "[" /\ s[2] = "^" /\ s[3] \in Digits /\ s[4] = "]"
    THEN 4 ELSE 0

\* Every match takes any run of symbols up to the next "]" as the index.
RECURSIVE NoBracketRun(_)
NoBracketRun(s) ==
    IF s # <<>> /\ Head(s) # "]" THEN 1 + NoBracketRun(Tail(s)) ELSE 0

LocalTokenMatchAnyIndex(s) ==
    IF Len(s) >= 4 /\ s[1] = "[" /\ s[2] = "^"
    THEN LET n == NoBracketRun(SubSeq(s, 3, Len(s)))
         IN IF n >= 1 /\ Len(s) >= n + 3 /\ s[n + 3] = "]" THEN n + 3 ELSE 0
    ELSE 0

LocalTokenMatch(s) ==
    IF Len(s) >= 4 /\ s[1] = "[" /\ s[2] = "^"
    THEN LET n == DigitRun(SubSeq(s, 3, Len(s)))
         IN IF n >= 1 /\ Len(s) >= n + 3 /\ s[n + 3] = "]" THEN n + 3 ELSE 0
    ELSE 0

\* The replacement written as "[^" index k "]": the token stays in the local
\* form and is matched again by a second pass.
RECURSIVE CitationSubKeepsLocalForm(_, _)
CitationSubKeepsLocalForm(index, doc_answer) ==
    IF doc_answer = <<>> THEN <<>>
    ELSE LET m == LocalTokenMatch(doc_answer)
         IN IF m > 0
            THEN <<"[", "^">> \o Str(index)
                 \o SubSeq(doc_answer, 3, m - 1) \o <<"]">>
                 \o CitationSubKeepsLocalForm(index,
                        SubSeq(doc_answer, m + 1, Len(doc_answer)))
            ELSE <<Head(doc_answer)>>
                 \o CitationSubKeepsLocalForm(index, Tail(doc_answer))

\* Lines 262-265: re.sub(pattern, f"[({index},\\1)]", doc_answer): the text is
\* scanned from the left and every match is replaced; the scan goes on after
\* the match.
RECURSIVE CitationSub(_, _)
CitationSub(index, doc_answer) ==
    IF doc_answer = <<>> THEN <<>>
    ELSE LET m == LocalTokenMatch(doc_answer)
         IN IF m > 0
            THEN <<"[", "(">> \o Str(index) \o <<",">>
                 \o SubSeq(doc_answer, 3, m - 1) \o <<")", "]">>
                 \o CitationSub(index, SubSeq(doc_answer, m + 1, Len(doc_answer)))
            ELSE <<Head(doc_answer)>> \o CitationSub(index, Tail(doc_answer))

\* The loop with every document remapped under the index 0.
RECURSIVE RemapLoopSameIndex(_, _, _)
RemapLoopSameIndex(merged, index, st) ==
    IF index >= Len(merged) THEN st
    ELSE LET doc_answer == merged[index + 1]
         IN IF ~Contains(doc_answer, NO_RELEVANT_MESSAGE)
            THEN RemapLoopSameIndex(merged, index + 1,
                     <<Append(st[1], CitationSub(0, doc_answer)), st[2]>>)
            ELSE RemapLoopSameIndex(merged, index + 1, <<st[1], st[2] + 1>>)

RECURSIVE RemapLoopContentIndex(_, _, _)
RemapLoopContentIndex(merged, index, st) ==
    IF index >= Len(merged) THEN st
    ELSE LET doc_answer == merged[index + 1]
         IN IF ~Contains(doc_answer, NO_RELEVANT_MESSAGE)
            THEN RemapLoopContentIndex(merged, index + 1,
                     <<Append(st[1], CitationSub(Len(st[1]), doc_answer)), st[2]>>)
            ELSE RemapLoopContentIndex(merged, index + 1, <<st[1], st[2] + 1>>)

\* Lines 257-268: the loop over enumerate(zip(doc_names, merged_map_answers)).
\* st is <<map_answers_regex, no_relevant_count>>; index is 0-based.
RECURSIVE RemapLoop(_, _, _)
RemapLoop(merged, index, st) ==
    IF index >= Len(merged) THEN st
    ELSE LET doc_answer == merged[index + 1]
         IN IF ~Contains(doc_answer, NO_RELEVANT_MESSAGE)
            THEN RemapLoop(merged, index + 1,
                     <<Append(st[1], CitationSub(index, doc_answer)), st[2]>>)
            ELSE RemapLoop(merged, index + 1, <<st[1], st[2] + 1>>)

\* Largest number of pieces, over all documents, the merged texts are made of.
MaxPieces == 3

\* The pieces the merged texts are built from: single characters, whole
\* citation tokens, and the sentinel answer.
Pieces == {
    <<"[">>, <<"^">>, <<"]">>, <<"1">>, <<"(">>, <<"x">>,
    <<"[", "^", "1", "]">>,
    <<"[", "^", "1", "2", "]">>,
    <<"[", "^", "x", "]">>,
    <<"[", "(", "0", ",", "1", ")", "]">>,
    NoRelevantAnswer
}

\* What merge_timeline_rule can return for a document: a non-empty text that
\* holds the sentinel phrase only when it is the sentinel answer.
MergedTextPossible(t) ==
    /\ t # <<>>
    /\ Contains(t, NO_RELEVANT_MESSAGE) => t = NoRelevantAnswer


\* --------------------------------------------------------- chronology events
\* The value of a Python variable that holds an event list: not assigned
\* yet, None, or a list of event records.
Unassigned == [kind |-> "unassigned", events |-> <<>>]

None == [kind |-> "None", events |-> <<>>]

ListOf(events) == [kind |-> "list", events |-> events]

\* An event record of the extracted JSON.
Event(title, time, event, source) ==
    [title |-> title, time |-> time, event |-> event, source |-> source]

\* The events the extraction call can return in this model: event texts
\* are spelled character by character, an empty source is the placeholder.
EventPool == {
    Event(<<"T1">>, "2020", <<"a", "b", "c", "d">>, <<>>),
    Event(<<"T2">>, "2020", <<"A", "B", "C", "x">>, <<>>),
    Event(<<"T3">>, "2020", <<"z", "b", "c", "x">>, <<>>),
    Event(<<"T4">>, "2020", <<"b", "a", "a", "a">>, <<>>),
    Event(<<"T5">>, "2021", <<"a", "a", "b", "a">>, <<>>),
    Event(<<"T6">>, "2021", <<"b", "a", "a", "a">>, <<>>),
    Event(<<"T7">>, "2021",
          <<"a", "b", "[", "(", "0", ",", "1", ")", "]">>, <<"?">>)
}

\* str.lower() over the letters of the event texts.
LowerCase == [c \in {"A", "B", "C"} |->
                 IF c = "A" THEN "a" ELSE IF c = "B" THEN "b" ELSE "c"]

Lower(s) ==
    [p \in 1 .. Len(s) |-> IF s[p] \in DOMAIN LowerCase THEN LowerCase[s[p]] ELSE s[p]]

\* ------------------------------------------- difflib.SequenceMatcher.ratio
\* Length of the common run of a from i and b from j, inside a[..ahi], b[..bhi].
RECURSIVE CommonRun(_, _, _, _, _, _)
CommonRun(a, i, ahi, b, j, bhi) ==
    IF i <= ahi /\ j <= bhi /\ a[i] = b[j]
    THEN 1 + CommonRun(a, i + 1, ahi, b, j + 1, bhi)
    ELSE 0

\* find_longest_match(alo, ahi, blo, bhi) without junk: of the longest common
\* blocks the one that starts earliest in a, and of those the one that starts
\* earliest in b; <<i, j, k>> with k = 0 when there is no common element.
FindLongestMatch(a, alo, ahi, b, blo, bhi) ==
    LET blocks == {<<i, j, CommonRun(a, i, ahi, b, j, bhi)>> :
                      i \in alo .. ahi, j \in blo .. bhi}
        found == {t \in blocks : t[3] > 0}
    IN IF found = {} THEN <<alo, blo, 0>>
       ELSE CHOOSE t \in found :
               \A u \in found :
                  \/ t[3] > u[3]
                  \/ t[3] = u[3] /\ t[1] < u[1]
                  \/ t[3] = u[3] /\ t[1] = u[1] /\ t[2] <= u[2]

\* get_matching_blocks: the longest match, then the same on the parts to its
\* left and to its right; the sum of the block sizes.
RECURSIVE Matches(_, _, _, _, _, _)
Matches(a, alo, ahi, b, blo, bhi) ==
    IF alo > ahi \/ blo > bhi THEN 0
    ELSE LET t == FindLongestMatch(a, alo, ahi, b, blo, bhi)
         IN IF t[3] = 0 THEN 0
            ELSE t[3]
                 + Matches(a, alo, t[1] - 1, b, blo, t[2] - 1)
                 + Matches(a, t[1] + t[3], ahi, b, t[2] + t[3], bhi)

\* The threshold 0.75 of line 287, as the fraction 3/4.
ThresholdNum == 3

ThresholdDen == 4

\* Line 283-287: SequenceMatcher(None, a, b).ratio() >= 0.75, where ratio is
\* 2.0 * matches / (len(a) + len(b)), and 1.0 for two empty texts.
RatioAtLeastThreshold(a, b) ==
    IF Len(a) + Len(b) = 0 THEN TRUE
    ELSE 2 * Matches(a, 1, Len(a), b, 1, Len(b)) * ThresholdDen
            >= ThresholdNum * (Len(a) + Len(b))

\* ---------------------------------------------------- duplicate filtering
\* Lines 281-288 with the time comparison left out.
IsDupIgnoringTime(ev, kept_events) ==
    \E p \in 1 .. Len(kept_events) :
        RatioAtLeastThreshold(Lower(ev.event), Lower(kept_events[p].event))

\* Lines 281-288 with the two texts handed to SequenceMatcher in the other
\* order.
IsDupSwapped(ev, kept_events) ==
    \E p \in 1 .. Len(kept_events) :
        /\ ev.time = kept_events[p].time
        /\ RatioAtLeastThreshold(Lower(kept_events[p].event), Lower(ev.event))

\* Lines 281-288: is_dup = any(... for kept in filtered).
IsDup(ev, kept_events) ==
    \E p \in 1 .. Len(kept_events) :
        /\ ev.time = kept_events[p].time
        /\ RatioAtLeastThreshold(Lower(ev.event), Lower(kept_events[p].event))

\* The loop with a new event put in front of the kept ones.
RECURSIVE FilterLoopPrepending(_, _)
FilterLoopPrepending(events, kept_events) ==
    IF events = <<>> THEN kept_events
    ELSE FilterLoopPrepending(Tail(events),
             IF IsDup(Head(events), kept_events) THEN kept_events
             ELSE <<Head(events)>> \o kept_events)

\* The loop with an event compared with the event that came before it in the
\* list instead of the kept ones.
RECURSIVE FilterAgainstPrevious(_, _, _)
FilterAgainstPrevious(events, kept_events, previous) ==
    IF events = <<>> THEN kept_events
    ELSE FilterAgainstPrevious(Tail(events),
             IF IsDup(Head(events), previous) THEN kept_events
             ELSE Append(kept_events, Head(events)),
             <<Head(events)>>)

FilterLoopAgainstPrevious(events, kept_events) ==
    FilterAgainstPrevious(events, kept_events, <<>>)

\* Lines 279-290: for ev in consolidated_json_answer, append ev to filtered
\* unless it is a duplicate of an event already there.
RECURSIVE FilterLoop(_, _)
FilterLoop(events, kept_events) ==
    IF events = <<>> THEN kept_events
    ELSE FilterLoop(Tail(events),
             IF IsDup(Head(events), kept_events) THEN kept_events
             ELSE Append(kept_events, Head(events)))

\* ------------------------------------------------------ source population
\* Line 294: length of the match of r"\[\((\d+),(\d+)\)\]" at the start of s,
\* 0 when the pattern does not match there.
GlobalTokenMatch(s) ==
    IF Len(s) >= 7 /\ s[1] = "[" /\ s[2] = "("
    THEN LET n == DigitRun(SubSeq(s, 3, Len(s)))
         IN IF n >= 1 /\ Len(s) >= n + 5 /\ s[n + 3] = ","
            THEN LET m == DigitRun(SubSeq(s, n + 4, Len(s)))
                 IN IF m >= 1 /\ Len(s) >= n + m + 5
                       /\ s[n + m + 4] = ")" /\ s[n + m + 5] = "]"
                    THEN n + m + 5 ELSE 0
            ELSE 0
    ELSE 0

\* Line 294: re.search: <<position, length>> of the leftmost match in s,
\* <<0, 0>> when there is none.
RECURSIVE GlobalTokenSearchFrom(_, _)
GlobalTokenSearchFrom(s, p) ==
    IF p > Len(s) THEN <<0, 0>>
    ELSE LET m == GlobalTokenMatch(SubSeq(s, p, Len(s)))
         IN IF m > 0 THEN <<p, m>> ELSE GlobalTokenSearchFrom(s, p + 1)

\* Lines 294-296 for one event: source becomes match.group(0)[1:-1].
FillSourceOf(event) ==
    LET match == GlobalTokenSearchFrom(event.event, 1)
    IN IF match[2] > 0
       THEN [event EXCEPT !.source =
                SubSeq(event.event, match[1] + 1, match[1] + match[2] - 2)]
       ELSE event

\* Lines 293-296: the loop over the kept events.
FillSources(events) == [p \in 1 .. Len(events) |-> FillSourceOf(events[p])]

\* ------------------------------------------------ _postprocess_chronology
\* The characters of the class [\(\)\d, ] of line 325.
MarkChars == Digits \cup {"(", ")", ",", SP}

RECURSIVE MarkRun(_)
MarkRun(s) ==
    IF s # <<>> /\ Head(s) \in MarkChars THEN 1 + MarkRun(Tail(s)) ELSE 0

\* Line 325: length of the match of r"\[[\(\)\d, ]+\]" at the start of s.
MarkMatch(s) ==
    IF Len(s) >= 3 /\ s[1] = "["
    THEN LET n == MarkRun(Tail(s))
         IN IF n >= 1 /\ Len(s) >= n + 2 /\ s[n + 2] = "]" THEN n + 2 ELSE 0
    ELSE 0

\* Line 325: re.sub(r"\[[\(\)\d, ]+\]", "", text).
RECURSIVE StripMarks(_)
StripMarks(s) ==
    IF s = <<>> THEN <<>>
    ELSE LET m == MarkMatch(s)
         IN IF m > 0 THEN StripMarks(SubSeq(s, m + 1, Len(s)))
            ELSE <<Head(s)>> \o StripMarks(Tail(s))

\* DocviewerTask.process_mark followed by orjson.loads: the inline citation
\* display keeps the events and their texts.
process_mark(chronology) == chronology

\* Lines 301-326.
_postprocess_chronology(chronology, viewer) ==
    IF chronology = None THEN None
    ELSE LET events == chronology.events
             titled == [p \in 1 .. Len(events) |->
                           [events[p] EXCEPT !.source = events[p].title]]
         IN IF viewer THEN ListOf(process_mark(titled))
            ELSE ListOf([p \in 1 .. Len(titled) |->
                            [titled[p] EXCEPT !.event = StripMarks(@)]])

\* ------------------------------------------------------------- Init
Init ==
    /\ pc = "submit"
    /\ \E n \in 1 .. MaxDocs :
          document_chunks \in [1 .. n -> 1 .. MaxPrompts]
    /\ SumSeq(document_chunks) <= MaxPrompts
    /\ max_workers \in 1 .. MaxWorkersCfg
    /\ submitted = 0
    /\ status = [i \in PromptIds |-> "none"]
    /\ llm_answer = [i \in PromptIds |-> "none"]
    /\ completion_order = <<>>
    /\ collected = 0
    /\ results = <<>>
    /\ map_answers = <<>>
    /\ MergeIdle
    /\ RemapIdle
    /\ AnswerIdle

\* ---------------------------------------------------------- actions
\* Line 404: executor.submit for the next prompt of the list comprehension.
Submit ==
    /\ pc = "submit"
    /\ submitted < NumPrompts
    /\ status' = [status EXCEPT ![submitted] = "queued"]
    /\ submitted' = submitted + 1
    /\ pc' = IF submitted + 1 = NumPrompts THEN "collect" ELSE "submit"
    /\ UNCHANGED <<document_chunks, max_workers, llm_answer, completion_order,
                   collected, results, map_answers>>
    /\ UNCHANGED <<vars_merge, vars_remap, vars_answer, vars_render>>

\* A pool thread takes the oldest queued work item; the pool never holds more
\* than PoolSize threads.
Start(i) ==
    /\ status[i] = "queued"
    /\ \A j \in Queued : i <= j
    /\ Cardinality(Running) < PoolSize
    /\ status' = [status EXCEPT ![i] = "running"]
    /\ UNCHANGED <<pc, document_chunks, max_workers, submitted, llm_answer,
                   completion_order, collected, results, map_answers>>
    /\ UNCHANGED <<vars_merge, vars_remap, vars_answer, vars_render>>

\* self.llm_predict ends: with a text that holds a timeline section, with a
\* text that holds the sentinel phrase, with an empty answer, or by raising.
Finish(i, out) ==
    /\ status[i] = "running"
    /\ status' = [status EXCEPT ![i] = "done"]
    /\ llm_answer' = [llm_answer EXCEPT ![i] = out]
    /\ completion_order' = Append(completion_order, i)
    /\ UNCHANGED <<pc, document_chunks, max_workers, submitted, collected,
                   results, map_answers>>
    /\ UNCHANGED <<vars_merge, vars_remap, vars_answer, vars_render>>

AfterCollect == IF collected + 1 = NumPrompts THEN "exit_with" ELSE "collect"

\* Lines 405-409, one iteration whose future.result() returns a text.
CollectText ==
    /\ pc = "collect"
    /\ NextFuture \in PromptIds
    /\ FutureDone(NextFuture)
    /\ llm_answer[NextFuture] \in {"text", "sentinel"}
    /\ results' = Append(results, Response(NextFuture))
    /\ collected' = collected + 1
    /\ pc' = AfterCollect
    /\ UNCHANGED <<document_chunks, max_workers, submitted, status, llm_answer,
                   completion_order, map_answers>>
    /\ UNCHANGED <<vars_merge, vars_remap, vars_answer, vars_render>>

\* Lines 405-408, one iteration whose answer is falsy: "continue".
CollectEmpty ==
    /\ pc = "collect"
    /\ NextFuture \in PromptIds
    /\ FutureDone(NextFuture)
    /\ llm_answer[NextFuture] \in {"empty", "none"}
    /\ collected' = collected + 1
    /\ pc' = AfterCollect
    /\ UNCHANGED <<document_chunks, max_workers, submitted, status, llm_answer,
                   completion_order, results, map_answers>>
    /\ UNCHANGED <<vars_merge, vars_remap, vars_answer, vars_render>>

\* Line 406: future.result() re-raises the exception of the call; nothing in
\* llm_predict_batch, map_answers or run catches it.
CollectRaise ==
    /\ pc = "collect"
    /\ NextFuture \in PromptIds
    /\ FutureDone(NextFuture)
    /\ llm_answer[NextFuture] = "raise"
    /\ pc' = "exit_raise"
    /\ UNCHANGED <<document_chunks, max_workers, submitted, status, llm_answer,
                   completion_order, collected, results, map_answers>>
    /\ UNCHANGED <<vars_merge, vars_remap, vars_answer, vars_render>>

\* Line 403/410: leaving the with block joins the pool, then results is returned.
ExitWith ==
    /\ pc = "exit_with"
    /\ \A i \in PromptIds : FutureDone(i)
    /\ pc' = "map_answers"
    /\ UNCHANGED <<document_chunks, max_workers, submitted, status, llm_answer,
                   completion_order, collected, results, map_answers>>
    /\ UNCHANGED <<vars_merge, vars_remap, vars_answer, vars_render>>

\* Line 403: the with block is left by the exception; the pool is joined and
\* the exception leaves llm_predict_batch, map_answers and run.
ExitRaise ==
    /\ pc = "exit_raise"
    /\ \A i \in PromptIds : FutureDone(i)
    /\ pc' = "raised"
    /\ UNCHANGED <<document_chunks, max_workers, submitted, status, llm_answer,
                   completion_order, collected, results, map_answers>>
    /\ UNCHANGED <<vars_merge, vars_remap, vars_answer, vars_render>>

\* Lines 369-382: the loop of map_answers over enumerate(answers).  st is
\* <<index, map_answers>>; i is the 0-based position in answers.
RECURSIVE MapAnswersLoop(_, _, _)
MapAnswersLoop(answers, i, st) ==
    IF i >= Len(answers) THEN st[2]
    ELSE LET index == IF i > DocumentScopes[st[1]][2] THEN st[1] + 1 ELSE st[1]
             answer == Chronology(answers[i + 1])
         IN MapAnswersLoop(answers, i + 1,
                <<index, [st[2] EXCEPT ![index] = Append(@, answer)]>>)

MapAnswersOf(answers) ==
    MapAnswersLoop(answers, 0, <<1, [d \in 1 .. Len(document_chunks) |-> <<>>]>>)

\* Lines 363-383.
MapAnswers ==
    /\ pc = "map_answers"
    /\ map_answers' = MapAnswersOf(results)
    /\ pc' = "generate_answer"
    /\ UNCHANGED <<document_chunks, max_workers, submitted, status, llm_answer,
                   completion_order, collected, results>>
    /\ UNCHANGED <<vars_merge, vars_remap, vars_answer, vars_render>>

\* Line 333 for the fragment of a response: it is kept unless the response
\* holds the sentinel phrase.
KeptFragments(d) ==
    {p \in 1 .. Len(map_answers[d]) : llm_answer[map_answers[d][p][2][2]] = "text"}

\* Lines 98-101, 255-271 and 302-303 when no document has a fragment that is
\* kept: every merged text is the sentinel answer, no_relevant_count equals
\* len(map_answers), the chronology is None and generate_answer returns the
\* EVENT_NOT_FOUND response.
GenerateAnswerNoRelevant ==
    /\ pc = "generate_answer"
    /\ \A d \in 1 .. Len(map_answers) : KeptFragments(d) = {}
    /\ response' = "EVENT_NOT_FOUND"
    /\ pc' = "returned"
    /\ UNCHANGED <<map_answers, vars_batch, vars_merge, vars_remap, vars_render, docviewer,
                   json_answer, consolidated_json_answer, filtered,
                   consolidated_chronology>>

\* Lines 255-275 when some document has content: the corpus goes to the
\* extraction call (AnswerSpec follows generate_answer from here).
GenerateAnswerConsolidates ==
    /\ pc = "generate_answer"
    /\ \E d \in 1 .. Len(map_answers) : KeptFragments(d) # {}
    /\ pc' = "consolidate"
    /\ UNCHANGED <<map_answers, vars_batch, vars_merge, vars_remap, vars_answer, vars_render>>

Next ==
    \/ Submit
    \/ \E i \in PromptIds : Start(i)
    \/ \E i \in PromptIds :
          \E out \in {"text", "sentinel", "empty", "raise"} : Finish(i, out)
    \/ CollectText
    \/ CollectEmpty
    \/ CollectRaise
    \/ ExitWith
    \/ ExitRaise
    \/ MapAnswers
    \/ GenerateAnswerNoRelevant
    \/ GenerateAnswerConsolidates

Spec == Init /\ [][Next]_vars

\* ---------------------------------------------------------------- MergeSpec
TotalFrags == SumSeq([d \in 1 .. Len(map_answers) |-> Len(map_answers[d])])

MergeInit ==
    /\ pc = "merge_input"
    /\ map_answers = << <<>> >>
    /\ BatchIdle
    /\ MergeIdle
    /\ RemapIdle
    /\ AnswerIdle

\* The query has one more document.
NewDocument ==
    /\ pc = "merge_input"
    /\ Len(map_answers) < MaxDocs
    /\ map_answers' = Append(map_answers, <<>>)
    /\ UNCHANGED <<pc, vars_batch, vars_merge, vars_remap, vars_answer, vars_render>>

\* The map stage appended one more fragment to the last document.
AddFragment(f) ==
    /\ pc = "merge_input"
    /\ TotalFrags < MaxFrags
    /\ map_answers' = [map_answers EXCEPT ![Len(map_answers)] = Append(@, f)]
    /\ UNCHANGED <<pc, vars_batch, vars_merge, vars_remap, vars_answer, vars_render>>

\* Line 255: merged_map_answers = self.merge_timeline_rule(map_answers).  The
\* function rebinds its loop variable and leaves the argument as it was.
MergeTimelineRule ==
    /\ pc = "merge_input"
    /\ merge_input' = map_answers
    /\ merged_answers' = merge_timeline_rule(map_answers)
    /\ pc' = "merged"
    /\ UNCHANGED <<map_answers, vars_batch, vars_remap, vars_answer, vars_render>>

MergeNext ==
    \/ NewDocument
    \/ \E f \in Fragments : AddFragment(f)
    \/ MergeTimelineRule

MergeSpec == MergeInit /\ [][MergeNext]_vars

\* ---------------------------------------------------------------- RemapSpec
RemapInit ==
    /\ pc = "remap_input"
    /\ map_answers = <<>>
    /\ BatchIdle
    /\ MergeIdle
    /\ merged_map_answers = << <<>> >>
    /\ map_answers_regex = <<>>
    /\ no_relevant_count = 0
    /\ final_chronology = "unassigned"
    /\ pieces_used = 0
    /\ AnswerIdle

\* The query has one more document.
NewMergedText ==
    /\ pc = "remap_input"
    /\ Len(merged_map_answers) < MaxDocs
    /\ merged_map_answers' = Append(merged_map_answers, <<>>)
    /\ UNCHANGED <<pc, map_answers, vars_batch, vars_merge, vars_answer, vars_render,
                   map_answers_regex,
                   no_relevant_count, final_chronology, pieces_used>>

\* The merged text of the last document is one piece longer.
AppendPiece(piece) ==
    /\ pc = "remap_input"
    /\ pieces_used < MaxPieces
    /\ pieces_used' = pieces_used + 1
    /\ merged_map_answers' =
          [merged_map_answers EXCEPT ![Len(merged_map_answers)] = @ \o piece]
    /\ UNCHANGED <<pc, map_answers, vars_batch, vars_merge, vars_answer, vars_render,
                   map_answers_regex,
                   no_relevant_count, final_chronology>>

\* Lines 257-273 of get_consolidated_chronology: the remapping loop, then the
\* corpus "\n".join(map_answers_regex) unless every document was skipped.
RemapCitations ==
    /\ pc = "remap_input"
    /\ \A d \in 1 .. Len(merged_map_answers) :
          MergedTextPossible(merged_map_answers[d])
    /\ LET st == RemapLoop(merged_map_answers, 0, <<<<>>, 0>>)
       IN /\ map_answers_regex' = st[1]
          /\ no_relevant_count' = st[2]
          /\ final_chronology' =
                IF st[2] = Len(merged_map_answers) THEN "unassigned"
                ELSE Join(st[1], <<NL>>)
    /\ pc' = "remapped"
    /\ UNCHANGED <<map_answers, vars_batch, vars_merge, vars_answer, vars_render,
                   merged_map_answers,
                   pieces_used>>

RemapNext ==
    \/ NewMergedText
    \/ \E piece \in Pieces : AppendPiece(piece)
    \/ RemapCitations

RemapSpec == RemapInit /\ [][RemapNext]_vars

\* --------------------------------------------------------------- AnswerSpec
\* generate_answer(doc_names, map_answers) up to its response, for documents
\* with at most one fragment each.

\* Largest number of events the extraction call returns.
MaxExtracted == 2

\* config.EVENT_LIMIT ranges over 1 .. MaxEventLimit.
MaxEventLimit == 2

\* A response that says nothing but the sentinel, and one with an event that
\* cites the snippet 1 of its document.
SentinelResponse ==
    <<"<chronology>", "<timeline>", "No relevant information found", ".",
      "</timeline>", "</chronology>">>

CitingResponse ==
    <<"<chronology>", "<timeline>", "a", "b", "[", "^", "1", "]",
      "</timeline>", "</chronology>">>

DocumentAnswers == {<<>>, <<SentinelResponse>>, <<CitingResponse>>}

\* The events the extraction call returns in AnswerSpec.
Extractable == {e \in EventPool : e.title \in {<<"T1">>, <<"T2">>, <<"T7">>}}

ExtractedLists ==
    UNION {[1 .. n -> Extractable] : n \in 0 .. MaxExtracted}

\* What the extraction call can return.
Extractions == {ListOf(events) : events \in ExtractedLists} \cup {None}

\* The orders a list can be put in.
Reorderings(events) ==
    {[p \in 1 .. Len(events) |-> events[f[p]]] :
        f \in Permutations(1 .. Len(events))}

AnswerInit ==
    /\ pc = "merge"
    /\ \E n \in 1 .. MaxDocs : map_answers \in [1 .. n -> DocumentAnswers]
    /\ BatchIdle
    /\ MergeIdle
    /\ RemapIdle
    /\ docviewer \in BOOLEAN
    /\ json_answer = Unassigned
    /\ consolidated_json_answer = Unassigned
    /\ filtered = Unassigned
    /\ consolidated_chronology = Unassigned
    /\ response = "none"
    /\ event_limit \in 1 .. MaxEventLimit
    /\ event_has_intercept = FALSE
    /\ consolidated_answer = <<>>

\* Line 255.
Merge ==
    /\ pc = "merge"
    /\ merged_map_answers' = merge_timeline_rule(map_answers)
    /\ pc' = "remap_input"
    /\ UNCHANGED <<map_answers, vars_batch, vars_merge, vars_answer, vars_render,
                   map_answers_regex, no_relevant_count, final_chronology,
                   pieces_used>>

\* Lines 270-271: every document was skipped as sentinel.
AllNoRelevant ==
    /\ pc = "remapped"
    /\ no_relevant_count = Len(map_answers)
    /\ consolidated_json_answer' = None
    /\ pc' = "postprocess"
    /\ UNCHANGED <<map_answers, vars_batch, vars_merge, vars_remap, vars_render, docviewer,
                   json_answer, filtered, consolidated_chronology, response>>

ExtractAlways(out) ==
    /\ pc = "remapped"
    /\ json_answer' = out
    /\ pc' = "sort"
    /\ UNCHANGED <<map_answers, vars_batch, vars_merge, vars_remap, vars_render, docviewer,
                   consolidated_json_answer, filtered, consolidated_chronology,
                   response>>

\* Line 274: consolidated_chronology_to_json_docviewer(final_chronology)
\* returns a list of events, or None when the backend output is no JSON.
Extract(out) ==
    /\ pc = "remapped"
    /\ no_relevant_count # Len(map_answers)
    /\ json_answer' = out
    /\ pc' = "sort"
    /\ UNCHANGED <<map_answers, vars_batch, vars_merge, vars_remap, vars_render, docviewer,
                   consolidated_json_answer, filtered, consolidated_chronology,
                   response>>

\* Line 275: sort_json_chronology(json_answer, query) returns the events in
\* the order the backend chose.
SortReorders(out) ==
    /\ pc = "sort"
    /\ json_answer # None
    /\ out \in Reorderings(json_answer.events)
    /\ consolidated_json_answer' = ListOf(out)
    /\ pc' = "dedupe"
    /\ UNCHANGED <<map_answers, vars_batch, vars_merge, vars_remap, vars_render, docviewer,
                   json_answer, filtered, consolidated_chronology, response>>

\* Line 275 for json_answer = None: there is nothing to reorder.
SortOfNone ==
    /\ pc = "sort"
    /\ json_answer = None
    /\ consolidated_json_answer' = None
    /\ pc' = "dedupe"
    /\ UNCHANGED <<map_answers, vars_batch, vars_merge, vars_remap, vars_render, docviewer,
                   json_answer, filtered, consolidated_chronology, response>>

\* Line 275: the backend call of the sort fails; nothing in
\* get_consolidated_chronology, generate_answer or run catches the exception.
SortRaises ==
    /\ pc = "sort"
    /\ pc' = "raised"
    /\ UNCHANGED <<map_answers, vars_batch, vars_merge, vars_remap, vars_answer, vars_render>>

\* Lines 277-291.
FilterDuplicates ==
    /\ pc = "dedupe"
    /\ consolidated_json_answer # None
    /\ filtered' = ListOf(FilterLoop(consolidated_json_answer.events, <<>>))
    /\ pc' = "fill_source"
    /\ UNCHANGED <<map_answers, vars_batch, vars_merge, vars_remap, vars_render, docviewer,
                   json_answer, consolidated_json_answer,
                   consolidated_chronology, response>>

\* Line 279 for consolidated_json_answer = None: "for ev in None" raises
\* TypeError.
FilterDuplicatesOfNone ==
    /\ pc = "dedupe"
    /\ consolidated_json_answer = None
    /\ pc' = "raised"
    /\ UNCHANGED <<map_answers, vars_batch, vars_merge, vars_remap, vars_answer, vars_render>>

\* Lines 291-296.
FillSource ==
    /\ pc = "fill_source"
    /\ filtered' = ListOf(FillSources(filtered.events))
    /\ pc' = "postprocess"
    /\ UNCHANGED <<map_answers, vars_batch, vars_merge, vars_remap, vars_render, docviewer,
                   json_answer, consolidated_json_answer,
                   consolidated_chronology, response>>

\* Line 299: the value get_consolidated_chronology returns.
ReturnedChronology ==
    IF filtered = Unassigned THEN consolidated_json_answer ELSE filtered

NotChronologyNoneOnly(chronology) == chronology = None

\* Line 100: "not consolidated_chronology" is true of None and of the empty
\* list.
NotChronology(chronology) == chronology = None \/ chronology.events = <<>>

\* Lines 98-101: _postprocess_chronology, then the EVENT_NOT_FOUND response
\* for None and for the empty list.
Postprocess ==
    /\ pc = "postprocess"
    /\ LET chronology == _postprocess_chronology(ReturnedChronology, docviewer)
       IN /\ consolidated_chronology' = chronology
          /\ IF NotChronology(chronology)
             THEN response' = "EVENT_NOT_FOUND" /\ pc' = "returned"
             ELSE response' = response /\ pc' = "truncate"
    /\ UNCHANGED <<map_answers, vars_batch, vars_merge, vars_remap, vars_render, docviewer,
                   json_answer, consolidated_json_answer, filtered>>

\* Line 51.
PREFIX_MESSAGE ==
    <<"This is a response containing a timeline of events:", SP, NL>>

\* Lines 52-54, with config.EVENT_LIMIT formatted by the f-string.
EVENT_LIMIT_MESSAGE(limit) ==
    <<NL, NL, "The Timeline feature has extracted the first", SP>>
        \o Str(limit) \o <<SP, "events from your documents.">>

ExceedsLimitOrEqual(n, limit) == n >= limit

\* Line 104: len(consolidated_chronology) > config.EVENT_LIMIT.
ExceedsLimit(n, limit) == n > limit

\* Line 105: the slice consolidated_chronology[: config.EVENT_LIMIT].
SliceTo(events, limit) ==
    SubSeq(events, 1, IF limit < Len(events) THEN limit ELSE Len(events))

EventBlockWithoutTitle(event) ==
    <<event.time, ":", SP>> \o event.event \o <<NL>>

\* Lines 183-184: the two f-strings appended for one event.
EventBlock(event) ==
    event.title \o <<SP, NL>>
        \o <<event.time, ":", SP>> \o event.event \o <<NL>>

\* Lines 182-184: the loop over the events.
RECURSIVE ChronologyLoop(_)
ChronologyLoop(events) ==
    IF events = <<>> THEN <<>>
    ELSE EventBlock(Head(events)) \o ChronologyLoop(Tail(events))

\* Lines 176-185.
json_to_chronology(events) == Strip(ChronologyLoop(events))

LimitNoticeAlways(intercept, limit) == EVENT_LIMIT_MESSAGE(limit)

\* Lines 205-206.
LimitNotice(intercept, limit) ==
    IF intercept THEN EVENT_LIMIT_MESSAGE(limit) ELSE <<>>

\* Lines 187-207, with add_header left at its default True as line 108
\* calls it.
get_consolidated_answer(events, intercept, limit) ==
    PREFIX_MESSAGE \o json_to_chronology(events) \o LimitNotice(intercept, limit)

\* Lines 103-106.
Truncate ==
    /\ pc = "truncate"
    /\ IF ExceedsLimit(Len(consolidated_chronology.events), event_limit)
       THEN /\ consolidated_chronology'
                 = ListOf(SliceTo(consolidated_chronology.events, event_limit))
            /\ event_has_intercept' = TRUE
       ELSE /\ consolidated_chronology' = consolidated_chronology
            /\ event_has_intercept' = FALSE
    /\ pc' = "render"
    /\ UNCHANGED <<map_answers, vars_batch, vars_merge, vars_remap, docviewer,
                   json_answer, consolidated_json_answer, filtered, response,
                   event_limit, consolidated_answer>>

\* Line 108.
Render ==
    /\ pc = "render"
    /\ consolidated_answer'
          = get_consolidated_answer(consolidated_chronology.events,
                                    event_has_intercept, event_limit)
    /\ pc' = "respond"
    /\ UNCHANGED <<map_answers, vars_batch, vars_merge, vars_remap, vars_answer,
                   event_limit, event_has_intercept>>

\* Lines 109-133: the rendered answer is handed to the response.
Respond ==
    /\ pc = "respond"
    /\ response' = "answer"
    /\ pc' = "returned"
    /\ UNCHANGED <<map_answers, vars_batch, vars_merge, vars_remap, vars_render,
                   docviewer, json_answer, consolidated_json_answer, filtered,
                   consolidated_chronology>>

AnswerNext ==
    \/ Merge
    \/ RemapCitations
    \/ AllNoRelevant
    \/ \E out \in Extractions : Extract(out)
    \/ \E out \in ExtractedLists : SortReorders(out)
    \/ SortOfNone
    \/ SortRaises
    \/ FilterDuplicates
    \/ FilterDuplicatesOfNone
    \/ FillSource
    \/ Postprocess
    \/ Truncate
    \/ Render
    \/ Respond

AnswerSpec == AnswerInit /\ [][AnswerNext]_vars

\* ---------------------------------------------------------------- DedupSpec
\* The duplicate filter and the source population over every sorted list of
\* at most MaxEvents events.
MaxEvents == 3

DedupInit ==
    /\ pc = "dedupe"
    /\ map_answers = <<>>
    /\ BatchIdle
    /\ MergeIdle
    /\ RemapIdle
    /\ docviewer = FALSE
    /\ json_answer = Unassigned
    /\ consolidated_json_answer = ListOf(<<>>)
    /\ filtered = Unassigned
    /\ consolidated_chronology = Unassigned
    /\ response = "none"
    /\ event_limit = 0
    /\ event_has_intercept = FALSE
    /\ consolidated_answer = <<>>

\* The sorted list has one more event.
AddEvent(e) ==
    /\ pc = "dedupe"
    /\ Len(consolidated_json_answer.events) < MaxEvents
    /\ consolidated_json_answer' =
          ListOf(Append(consolidated_json_answer.events, e))
    /\ UNCHANGED <<pc, map_answers, vars_batch, vars_merge, vars_remap,
                   vars_render, docviewer, json_answer, filtered, consolidated_chronology,
                   response>>

DedupNext ==
    \/ \E e \in EventPool : AddEvent(e)
    \/ FilterDuplicates
    \/ FillSource

DedupSpec == DedupInit /\ [][DedupNext]_vars

\* ------------------------------------------------------------- merge claims
\* The symbols a fragment that says nothing but the sentinel is made of.
SentinelWrapping ==
    {"No relevant information found", ".", NL, SP, "<chronology>", "</chronology>",
     "<timeline>", "</timeline>", "<summary>", "</summary>"}

HoldsPhrase(f) == \E p \in 1 .. Len(f) : f[p] = "No relevant information found"

HoldsTimelineTag(f) == \E p \in 1 .. Len(f) : f[p] = "<timeline>"

\* The fragment is the sentinel, or the sentinel with only tags, whitespace and
\* a full stop around it.
SolelySentinel(f) ==
    HoldsPhrase(f) /\ \A p \in 1 .. Len(f) : f[p] \in SentinelWrapping

NotSolelySentinel(f) == ~SolelySentinel(f)

WithoutPhrase(f) == ~HoldsPhrase(f)

MinOf(S) == CHOOSE x \in S : \A y \in S : x <= y

MaxOf(S) == CHOOSE x \in S : \A y \in S : x >= y

\* The timeline section of a fragment, read off the positions of its tags: the
\* text after the first "<timeline>" up to the next tag, without the whitespace
\* around it; the fragment itself when it has no "<timeline>".
DeclaredSection(f) ==
    IF ~HoldsTimelineTag(f) THEN f
    ELSE LET open == MinOf({p \in 1 .. Len(f) : f[p] = "<timeline>"})
             stops == {q \in (open + 1) .. Len(f) :
                          f[q] \in {"<timeline>", "</timeline>"}}
             stop == IF stops = {} THEN Len(f) + 1 ELSE MinOf(stops)
             inner == {q \in (open + 1) .. (stop - 1) : f[q] \notin Whitespace}
         IN IF inner = {} THEN <<>> ELSE SubSeq(f, MinOf(inner), MaxOf(inner))

SectionsOf(frags) == [p \in 1 .. Len(frags) |-> DeclaredSection(frags[p])]

MergedDocs == 1 .. Len(map_answers)

\* C6 (as amended): a document whose fragment list is empty or holds only
\* sentinel fragments gets the sentinel followed by a full stop,
\* "No relevant information found.", as its merged text.
C6_SentinelOnlyDocumentGetsSentinelAnswer ==
    pc = "merged" =>
        \A d \in MergedDocs :
            (\A p \in 1 .. Len(map_answers[d]) : SolelySentinel(map_answers[d][p]))
                => merged_answers[d] = NO_RELEVANT_MESSAGE \o <<".">>

\* C6 as stated: the merged text of such a document equals the sentinel
\* 'No relevant information found' exactly.
C6_Original_MergedEqualsSentinelExactly ==
    pc = "merged" =>
        \A d \in MergedDocs :
            (\A p \in 1 .. Len(map_answers[d]) : SolelySentinel(map_answers[d][p]))
                => merged_answers[d] = NO_RELEVANT_MESSAGE

\* Merged: one document without any fragment and one with two sentinel
\* fragments, one of them with the sentinel inside timeline tags.
C6_Witness ==
    /\ pc = "merged"
    /\ Len(map_answers) = 2
    /\ map_answers[1] = <<>>
    /\ Len(map_answers[2]) = 2
    /\ \A p \in 1 .. 2 : SolelySentinel(map_answers[2][p])
    /\ \E p \in 1 .. 2 : HoldsTimelineTag(map_answers[2][p])
    /\ \A d \in 1 .. 2 : merged_answers[d] = NO_RELEVANT_MESSAGE \o <<".">>

\* C7: a non-sentinel fragment without a <timeline> section contributes its
\* raw text as-is, the sections of the other fragments are still included, and
\* the document does not become the sentinel.
C7_FragmentWithoutTagUsedRaw ==
    pc = "merged" =>
        \A d \in MergedDocs :
            LET kept == SelectSeq(map_answers[d], WithoutPhrase)
            IN (\E p \in 1 .. Len(kept) :
                    ~HoldsTimelineTag(kept[p]) /\ kept[p] # <<>>)
                => merged_answers[d] =
                       postprocess_chronology(Join(SectionsOf(kept), <<NL>>))

\* C8: a fragment is dropped only when it consists solely of the sentinel; a
\* fragment with timeline content that also holds the sentinel phrase is kept
\* and its section is merged.
C8_OnlySentinelFragmentsDropped ==
    pc = "merged" =>
        \A d \in MergedDocs :
            LET kept == SelectSeq(map_answers[d], NotSolelySentinel)
            IN (/\ \A p \in 1 .. Len(kept) : HoldsTimelineTag(kept[p])
                /\ \E p \in 1 .. Len(kept) :
                      HoldsPhrase(kept[p]) /\ DeclaredSection(kept[p]) # <<>>)
                => merged_answers[d] =
                       postprocess_chronology(Join(SectionsOf(kept), <<NL>>))

LocalTokenAt(t, p) ==
    /\ p + 3 <= Len(t)
    /\ t[p] = "[" /\ t[p + 1] = "^"
    /\ \E q \in (p + 3) .. Len(t) :
          /\ t[q] = "]"
          /\ \A r \in (p + 2) .. (q - 1) : t[r] \in Digits

HoldsLocalToken(t) == \E p \in 1 .. Len(t) : LocalTokenAt(t, p)

\* Length of the global token "[(d,k)]" of document index d at the start of s,
\* 0 when s does not start with one.
GlobalTokenLen(d, s) ==
    LET head == <<"[", "(">> \o Str(d) \o <<",">>
        h == Len(head)
    IN IF Len(s) > h /\ SubSeq(s, 1, h) = head
       THEN LET n == DigitRun(SubSeq(s, h + 1, Len(s)))
            IN IF n >= 1 /\ Len(s) >= h + n + 2
                  /\ s[h + n + 1] = ")" /\ s[h + n + 2] = "]"
               THEN h + n + 2 ELSE 0
       ELSE 0

\* t with every global token "[(d,k)]" of document index d written back in
\* the local form "[^k]".
RECURSIVE Localised(_, _)
Localised(d, t) ==
    IF t = <<>> THEN <<>>
    ELSE LET m == GlobalTokenLen(d, t)
             h == Len(Str(d)) + 3
         IN IF m > 0
            THEN <<"[", "^">> \o SubSeq(t, h + 1, m - 2) \o <<"]">>
                 \o Localised(d, SubSeq(t, m + 1, Len(t)))
            ELSE <<Head(t)>> \o Localised(d, Tail(t))

\* The documents (1-based positions) whose merged text is not the sentinel.
ContentDocs ==
    {d \in 1 .. Len(merged_map_answers) :
        ~HoldsPhrase(merged_map_answers[d])}

\* C10: the remapping of the document with index d rewrites every local token
\* [^k] to [(d,k)] and changes no other character (writing the tokens (d,k)
\* back as [^k] gives the text it started from), and the corpus handed to the
\* extractor holds no local token.
C10_EveryLocalTokenRemapped ==
    pc = "remapped" =>
        /\ Len(map_answers_regex) = Cardinality(ContentDocs)
        /\ \A p \in 1 .. Len(map_answers_regex) :
              LET d == Ascending(ContentDocs)[p]
              IN /\ ~HoldsLocalToken(map_answers_regex[p])
                 /\ Localised(d - 1, map_answers_regex[p])
                       = Localised(d - 1, merged_map_answers[d])
                 /\ ~(\E q \in 1 .. Len(merged_map_answers[d]) :
                          GlobalTokenLen(d - 1, SubSeq(merged_map_answers[d], q,
                                              Len(merged_map_answers[d]))) > 0)
                       => Localised(d - 1, map_answers_regex[p])
                              = merged_map_answers[d]
        /\ final_chronology # "unassigned" => ~HoldsLocalToken(final_chronology)

\* Remapped: the second document holds a two-digit local token next to a
\* bracket that is no token, and the corpus holds it as the token (1,12).
C10_Witness ==
    /\ pc = "remapped"
    /\ Len(merged_map_answers) = 2
    /\ merged_map_answers[1] = <<"[", "^", "1", "]">>
    /\ merged_map_answers[2] = <<"[", "[", "^", "1", "2", "]">>
    /\ final_chronology =
          <<"[", "(", "0", ",", "1", ")", "]", NL,
            "[", "[", "(", "1", ",", "1", "2", ")", "]">>

\* s is a global citation token "[(d,k)]" of some document index d.
IsGlobalToken(s) ==
    /\ Len(s) >= 7 /\ s[1] = "[" /\ s[2] = "("
    /\ LET n == DigitRun(SubSeq(s, 3, Len(s)))
       IN /\ n >= 1 /\ Len(s) >= n + 5 /\ s[n + 3] = ","
          /\ LET m == DigitRun(SubSeq(s, n + 4, Len(s)))
             IN /\ m >= 1 /\ Len(s) = n + m + 5
                /\ s[n + m + 4] = ")" /\ s[n + m + 5] = "]"

\* The global tokens that occur in t.
GlobalTokensIn(t) ==
    {s \in {SubSeq(t, a, b) : a \in 1 .. Len(t), b \in 1 .. Len(t)} :
        IsGlobalToken(s)}

\* The document indices a second remapping pass could run with.
DocIndices == 0 .. (MaxDocs - 1)

\* C11: remapping is idempotent: a remapped text is left unchanged by one more
\* remapping pass, whatever document index the pass runs with, and a text
\* whose citation tokens are all in the global form already is remapped to
\* itself.
C11_RemapIdempotent ==
    pc = "remapped" =>
        \A p \in 1 .. Len(map_answers_regex) :
            LET d == Ascending(ContentDocs)[p]
            IN /\ \A index \in DocIndices :
                     CitationSub(index, map_answers_regex[p])
                        = map_answers_regex[p]
               /\ (GlobalTokensIn(merged_map_answers[d]) # {}
                      /\ ~HoldsLocalToken(merged_map_answers[d]))
                     => map_answers_regex[p] = merged_map_answers[d]

\* Remapped: the text of the first document held a global token followed by a
\* local one; both are the token (0,1) now.
C11_Witness ==
    /\ pc = "remapped"
    /\ merged_map_answers[1] =
          <<"[", "(", "0", ",", "1", ")", "]", "[", "^", "1", "]">>
    /\ map_answers_regex[1] =
          <<"[", "(", "0", ",", "1", ")", "]", "[", "(", "0", ",", "1", ")", "]">>

\* The local indices k of the tokens [^k] that occur in t.
LocalKeys(t) ==
    {k \in {SubSeq(t, a + 2, b - 1) : a \in 1 .. Len(t), b \in 1 .. Len(t)} :
        /\ k # <<>>
        /\ \A r \in 1 .. Len(k) : k[r] \in Digits
        /\ Contains(t, <<"[", "^">> \o k \o <<"]">>)}

\* C12: remapping is injective: two documents whose merged texts hold local
\* tokens only never share a global token after remapping, even for the same
\* local index k, and one document has as many different global tokens as it
\* had different local indices.
C12_RemapInjective ==
    pc = "remapped" =>
        \A p, q \in 1 .. Len(map_answers_regex) :
            LET d == Ascending(ContentDocs)[p]
                e == Ascending(ContentDocs)[q]
            IN (GlobalTokensIn(merged_map_answers[d]) = {}
                   /\ GlobalTokensIn(merged_map_answers[e]) = {})
               => /\ p # q =>
                        GlobalTokensIn(map_answers_regex[p])
                           \cap GlobalTokensIn(map_answers_regex[q]) = {}
                  /\ Cardinality(GlobalTokensIn(map_answers_regex[p]))
                        = Cardinality(LocalKeys(merged_map_answers[d]))

\* Remapped: both documents cited their snippet 1, the second one its snippet
\* 12 as well; the corpus holds the three tokens (0,1), (1,1) and (1,12).
C12_Witness ==
    /\ pc = "remapped"
    /\ Len(merged_map_answers) = 2
    /\ merged_map_answers[1] = <<"[", "^", "1", "]">>
    /\ merged_map_answers[2] = <<"[", "^", "1", "]", "[", "^", "1", "2", "]">>
    /\ GlobalTokensIn(final_chronology) =
          {<<"[", "(", "0", ",", "1", ")", "]">>,
           <<"[", "(", "1", ",", "1", ")", "]">>,
           <<"[", "(", "1", ",", "1", "2", ")", "]">>}

\* The positions of t that lie inside a well-formed local token.
InLocalToken(t) ==
    {r \in 1 .. Len(t) :
        \E p \in 1 .. r :
            /\ LocalTokenAt(t, p)
            /\ r <= p + 2 + DigitRun(SubSeq(t, p + 2, Len(t)))}

\* The places of t where sub starts.
Occurrences(t, sub) ==
    {p \in 1 .. Len(t) :
        p + Len(sub) - 1 <= Len(t) /\ SubSeq(t, p, p + Len(sub) - 1) = sub}

\* Number of places of t where sub occurs outside every well-formed token.
MalformedCount(t, sub) ==
    Cardinality({p \in Occurrences(t, sub) :
                    \A r \in p .. (p + Len(sub) - 1) : r \notin InLocalToken(t)})

\* Token-like texts that are no local citation token.
MalformedTokens ==
    {<<"[", "^", "x", "]">>, <<"[", "^", "1">>, <<"^", "1", "]">>, <<"[", "^", "]">>}

\* C13: malformed tokens are left as they are: a text without a well-formed
\* local token is remapped to itself, and in every text each malformed token
\* occurs after the remapping as often as before.
C13_MalformedTokensUntouched ==
    pc = "remapped" =>
        \A p \in 1 .. Len(map_answers_regex) :
            LET d == Ascending(ContentDocs)[p]
            IN /\ ~HoldsLocalToken(merged_map_answers[d])
                     => map_answers_regex[p] = merged_map_answers[d]
               /\ \A t \in MalformedTokens :
                     MalformedCount(map_answers_regex[p], t)
                        = MalformedCount(merged_map_answers[d], t)

\* Remapped: the text of the first document was a token with the index x
\* followed by an opened token that is never closed, and it is unchanged.
C13_Witness ==
    /\ pc = "remapped"
    /\ merged_map_answers[1] = <<"[", "^", "x", "]", "[", "^">>
    /\ map_answers_regex[1] = <<"[", "^", "x", "]", "[", "^">>

\* The digits of the document index of a global token.
TokenDocIndex(token) == SubSeq(token, 3, 2 + DigitRun(SubSeq(token, 3, Len(token))))

\* C27: the document index written into the global tokens of a document is
\* its position among all the documents of the query, the sentinel-only ones
\* that the loop skips included: the tokens of the document with the 0-based
\* index d all read [(d,k)].
C27_DocIndexCountsSkippedDocuments ==
    pc = "remapped" =>
        \A p \in 1 .. Len(map_answers_regex) :
            LET d == Ascending(ContentDocs)[p]
            IN GlobalTokensIn(merged_map_answers[d]) = {}
               => \A token \in GlobalTokensIn(map_answers_regex[p]) :
                     TokenDocIndex(token) = Str(d - 1)

\* Remapped: the first document is sentinel-only, the second cites its
\* snippet 1, and the corpus holds the token (1,1).
C27_Witness ==
    /\ pc = "remapped"
    /\ Len(merged_map_answers) = 2
    /\ merged_map_answers[1] = NoRelevantAnswer
    /\ merged_map_answers[2] = <<"[", "^", "1", "]">>
    /\ no_relevant_count = 1
    /\ map_answers_regex = <<<<"[", "(", "1", ",", "1", ")", "]">>>>

\* ----------------------------------------------------- consolidation claims
\* generate_answer has ended: by an exception, with the EVENT_NOT_FOUND
\* response, or with a chronology that goes on to be rendered.
AnswerEnded == pc \in {"raised", "returned"}

\* C14: when the extraction call yields None, generate_answer returns the
\* EVENT_NOT_FOUND response and raises no exception, here even for the runs
\* in which the sort call itself does not fail.
C14_ExtractionFailureGivesNoEvents ==
    (AnswerEnded /\ json_answer = None /\ consolidated_json_answer # Unassigned)
        => (pc = "returned" /\ response = "EVENT_NOT_FOUND")

\* C16: a failure of the sort call never fails the query: once the events are
\* extracted and the sort call has ended without a result, the pipeline goes
\* on and no exception leaves generate_answer.
C16_SortFailureFallsBackToExtractionOrder ==
    (json_answer.kind = "list" /\ consolidated_json_answer = Unassigned
        /\ pc # "sort")
        => pc # "raised"

\* C20: in the chronology generate_answer goes on with, every event whose
\* text held a global citation token when get_consolidated_chronology
\* returned has the content (d,k) of a token of that text as its source.
C20_SourceIsTokenContent ==
    (pc \in {"truncate", "render", "respond", "returned"}
        /\ consolidated_chronology.kind = "list")
        => \A p \in 1 .. Len(consolidated_chronology.events) :
              GlobalTokensIn(filtered.events[p].event) # {}
              => \E token \in GlobalTokensIn(filtered.events[p].event) :
                    consolidated_chronology.events[p].source
                       = SubSeq(token, 2, Len(token) - 1)

\* The remapping loop of get_consolidated_chronology is over.
RemapDone == pc \notin {"merge", "remap_input"}

\* Every merged text was the sentinel.
AllSentinel == no_relevant_count = Len(map_answers)

\* C28: when every merged text is the sentinel, get_consolidated_chronology
\* returns None and neither the extraction call nor the sort call is ever
\* made; the extraction is called only when some document contributed text.
C28_AllSentinelSkipsExtractionAndSort ==
    /\ (RemapDone /\ AllSentinel)
          => /\ json_answer = Unassigned
             /\ filtered = Unassigned
             /\ pc \in {"remapped", "postprocess", "returned"}
             /\ pc # "remapped" => consolidated_json_answer = None
    /\ json_answer # Unassigned
          => \E d \in 1 .. Len(merged_map_answers) :
                ~Contains(merged_map_answers[d], NO_RELEVANT_MESSAGE)

\* Two documents, both sentinel-only: the query has returned EVENT_NOT_FOUND
\* without an extraction.
C28_Witness ==
    /\ pc = "returned"
    /\ Len(map_answers) = 2
    /\ AllSentinel
    /\ merged_map_answers = <<NoRelevantAnswer, NoRelevantAnswer>>
    /\ json_answer = Unassigned
    /\ consolidated_json_answer = None
    /\ response = "EVENT_NOT_FOUND"

SortedEvents == consolidated_json_answer.events

KeptEvents == filtered.events

\* The duplicate filter has just run.
Deduped == pc = "fill_source"

\* similarity(lowercase e.event, lowercase k.event) >= 0.75.
Similar(e, k) == RatioAtLeastThreshold(Lower(e.event), Lower(k.event))

\* The events of the list at the positions K, in the order of the list.
Selection(events, K) ==
    [p \in 1 .. Cardinality(K) |-> events[Ascending(K)[p]]]

\* K is the set of positions that survive the rule: a position is dropped if
\* and only if a surviving earlier position holds an event with the same time
\* string and a text the event is similar to.
FollowsDedupRule(events, K) ==
    \A i \in 1 .. Len(events) :
        i \notin K <=>
            \E k \in K : /\ k < i
                         /\ events[i].time = events[k].time
                         /\ Similar(events[i], events[k])

\* C17: the kept events are the events at the positions that survive the
\* rule, and every dropped event has the time string of an earlier kept one:
\* events with different time strings never eliminate each other.
C17_DedupRule ==
    Deduped =>
        \E K \in SUBSET (1 .. Len(SortedEvents)) :
            /\ FollowsDedupRule(SortedEvents, K)
            /\ KeptEvents = Selection(SortedEvents, K)
            /\ \A i \in (1 .. Len(SortedEvents)) \ K :
                  \E k \in K : k < i /\ SortedEvents[k].time = SortedEvents[i].time

\* Deduplicated: of two events with the texts "baaa" and "aaba" and the same
\* time the second was dropped (similarity 0.75 in this order, 0.5 in the
\* other), and an event with a text equal to a kept one but another time stays.
C17_Witness ==
    /\ Deduped
    /\ Len(SortedEvents) = 3
    /\ SortedEvents[1].event = <<"b", "a", "a", "a">>
    /\ SortedEvents[2].event = <<"a", "a", "b", "a">>
    /\ SortedEvents[3].event = <<"b", "a", "a", "a">>
    /\ SortedEvents[1].time = SortedEvents[2].time
    /\ SortedEvents[3].time # SortedEvents[1].time
    /\ KeptEvents = <<SortedEvents[1], SortedEvents[3]>>

\* C18: the kept events are a subsequence of the sorted events (same relative
\* order, nothing added or altered), and the first sorted event is kept as it
\* is.
C18_DedupKeepsOrderAndFirst ==
    Deduped =>
        /\ \E K \in SUBSET (1 .. Len(SortedEvents)) :
              KeptEvents = Selection(SortedEvents, K)
        /\ SortedEvents # <<>> =>
              (KeptEvents # <<>> /\ KeptEvents[1] = SortedEvents[1])

\* Deduplicated: of three different events the second was dropped, the first
\* and the third are kept in their order.
C18_Witness ==
    /\ Deduped
    /\ Len(SortedEvents) = 3
    /\ SortedEvents[1] # SortedEvents[3]
    /\ Len(KeptEvents) = 2
    /\ KeptEvents[1] = SortedEvents[1]
    /\ KeptEvents[2] = SortedEvents[3]
    /\ SortedEvents[2].title = <<"T2">>

\* Two positions hold events with one time string whose texts are similar in
\* one direction or the other.
DirectlyLinked(events, i, j) ==
    /\ i # j
    /\ events[i].time = events[j].time
    /\ (Similar(events[i], events[j]) \/ Similar(events[j], events[i]))

\* The positions linked to a position of S directly or through a chain.
RECURSIVE ChainCluster(_, _)
ChainCluster(events, S) ==
    LET T == S \cup {j \in 1 .. Len(events) :
                        \E i \in S : DirectlyLinked(events, i, j)}
    IN IF T = S THEN S ELSE ChainCluster(events, T)

\* Position k holds the first event of a cluster: its text is similar to no
\* earlier event with the same time string.
FirstOfCluster(events, k) ==
    ~(\E j \in 1 .. (k - 1) :
         events[j].time = events[k].time /\ Similar(events[k], events[j]))

\* The first event at k and the later events with the same time string that
\* are similar to it.
DirectCluster(events, k) ==
    {k} \cup {i \in (k + 1) .. Len(events) :
                 events[i].time = events[k].time /\ Similar(events[i], events[k])}

\* C19 (amended): exactly one representative per cluster of directly similar
\* events: an event similar to no earlier event of its time string is kept,
\* and of the later events of that time string that are similar to it none is
\* kept.
C19_OneRepresentativePerDirectCluster ==
    Deduped =>
        \E K \in SUBSET (1 .. Len(SortedEvents)) :
            /\ KeptEvents = Selection(SortedEvents, K)
            /\ \A k \in 1 .. Len(SortedEvents) :
                  FirstOfCluster(SortedEvents, k)
                  => DirectCluster(SortedEvents, k) \cap K = {k}

\* C19 as stated: of the events linked directly or through a chain exactly
\* one, the first in sorted order, is kept.
C19_Original_OneRepresentativePerChainCluster ==
    Deduped =>
        \E K \in SUBSET (1 .. Len(SortedEvents)) :
            /\ KeptEvents = Selection(SortedEvents, K)
            /\ \A i \in 1 .. Len(SortedEvents) :
                  LET cluster == ChainCluster(SortedEvents, {i})
                  IN cluster \cap K = {MinOf(cluster)}

\* Deduplicated: "abcd", "ABCx" and "zbcx" share a time string; the second is
\* similar to the first and the third, the third is not similar to the first.
\* The first and the third are kept.
C19_Witness ==
    /\ Deduped
    /\ Len(SortedEvents) = 3
    /\ SortedEvents[1].title = <<"T1">>
    /\ SortedEvents[2].title = <<"T2">>
    /\ SortedEvents[3].title = <<"T3">>
    /\ ChainCluster(SortedEvents, {1}) = {1, 2, 3}
    /\ KeptEvents = <<SortedEvents[1], SortedEvents[3]>>

\* C30: the duplicate filter is idempotent: run on the events it kept, it
\* keeps all of them in the same order.
C30_DedupIdempotent ==
    Deduped => FilterLoop(KeptEvents, <<>>) = KeptEvents

\* Deduplicated: of "zbcx", "ABCx" and "abcd" with one time string the second
\* was dropped; the two kept events are not similar, and a second pass keeps
\* both.
C30_Witness ==
    /\ Deduped
    /\ Len(SortedEvents) = 3
    /\ SortedEvents[1].title = <<"T3">>
    /\ SortedEvents[2].title = <<"T2">>
    /\ SortedEvents[3].title = <<"T1">>
    /\ KeptEvents = <<SortedEvents[1], SortedEvents[3]>>
    /\ ~IsDup(KeptEvents[2], <<KeptEvents[1]>>)

\* ----------------------------------------------------------- rendering claims
\* generate_answer has been through lines 103-106.
Truncated ==
    pc \in {"render", "respond"} \/ (pc = "returned" /\ response = "answer")

\* The deduplicated events as _postprocess_chronology hands them to the
\* truncation.
DedupedEvents == _postprocess_chronology(filtered, docviewer).events

\* C21: for n deduplicated events and the limit L, the final chronology is
\* the first min(n, L) of them in their order, event_has_intercept is true
\* exactly when n > L, and the final chronology never holds more than L events.
C21_TruncationKeepsFirstEvents ==
    Truncated
        => LET n == Len(DedupedEvents)
               L == event_limit
           IN /\ consolidated_chronology.events
                    = SubSeq(DedupedEvents, 1, MinOf({n, L}))
              /\ event_has_intercept = (n > L)
              /\ Len(consolidated_chronology.events) <= L

C21_Witness ==
    /\ Truncated
    /\ Len(DedupedEvents) = 2
    /\ event_limit = 1
    /\ event_has_intercept
    /\ consolidated_chronology.events = <<DedupedEvents[1]>>

\* generate_answer has been through line 108.
Rendered == pc = "respond" \/ (pc = "returned" /\ response = "answer")

\* The lines of a text: what stands between its line breaks.
RECURSIVE LinesOf(_)
LinesOf(s) ==
    IF \E i \in 1 .. Len(s) : s[i] = NL
    THEN LET i == CHOOSE k \in 1 .. Len(s) :
                     s[k] = NL /\ \A j \in 1 .. k - 1 : s[j] # NL
         IN <<SubSeq(s, 1, i - 1)>> \o LinesOf(SubSeq(s, i + 1, Len(s)))
    ELSE <<s>>

\* The lines of the rendered answer that come before the notice.
AnswerLines ==
    LET lines == LinesOf(consolidated_answer)
    IN IF event_has_intercept THEN SubSeq(lines, 1, Len(lines) - 2) ELSE lines

\* C22: the rendered answer is the header line and then, for each event of
\* the final chronology in its order, a line with the event's title (and a
\* blank after it) and a line '{time}: {event}'; the text holds two lines per
\* event and no others, so no event is skipped or repeated.
C22_RenderedBlocksFollowChronology ==
    Rendered
        => LET events == consolidated_chronology.events
           IN /\ Len(AnswerLines) = 1 + 2 * Len(events)
              /\ RStrip(AnswerLines[1]) = RStrip(SubSeq(PREFIX_MESSAGE, 1, 2))
              /\ \A p \in 1 .. Len(events) :
                    /\ RStrip(AnswerLines[2 * p]) = events[p].title
                    /\ AnswerLines[2 * p + 1]
                          = <<events[p].time, ":", SP>> \o events[p].event

C22_Witness ==
    /\ Rendered
    /\ Len(consolidated_chronology.events) = 2
    /\ consolidated_chronology.events[1].title # consolidated_chronology.events[2].title
    /\ Len(LinesOf(consolidated_answer)) = 5
    /\ LinesOf(consolidated_answer)[4] = consolidated_chronology.events[2].title \o <<SP>>

\* text ends with suffix.
EndsWith(text, suffix) ==
    /\ Len(suffix) <= Len(text)
    /\ SubSeq(text, Len(text) - Len(suffix) + 1, Len(text)) = suffix

\* C23: the rendered answer ends with the 'first N events' notice when the
\* deduplicated list was longer than the limit, and holds no such notice
\* when the list had at most that many events.
C23_NoticeIffTruncated ==
    Rendered
        => IF Len(DedupedEvents) > event_limit
           THEN EndsWith(consolidated_answer, EVENT_LIMIT_MESSAGE(event_limit))
           ELSE \A limit \in 1 .. MaxEventLimit :
                   ~Contains(consolidated_answer, EVENT_LIMIT_MESSAGE(limit))

C23_Witness ==
    /\ Rendered
    /\ Len(DedupedEvents) > event_limit
    /\ event_limit = 1
    /\ EndsWith(consolidated_answer,
                <<SP, "1", SP, "events from your documents.">>)

\* _postprocess_chronology has returned a list of events.
Postprocessed ==
    /\ pc \in {"truncate", "render", "respond", "returned"}
    /\ consolidated_chronology.kind = "list"

\* C24: with no doc-viewer flag set, the text of every final event holds no
\* global citation token, and an event whose text held one when the sources
\* were populated has the content (d,k) of such a token as its source.
C24_StrippedTextKeepsCitationInSource ==
    (Postprocessed /\ ~docviewer)
        => \A p \in 1 .. Len(consolidated_chronology.events) :
              /\ GlobalTokensIn(consolidated_chronology.events[p].event) = {}
              /\ GlobalTokensIn(filtered.events[p].event) # {}
                 => \E token \in GlobalTokensIn(filtered.events[p].event) :
                       consolidated_chronology.events[p].source
                          = SubSeq(token, 2, Len(token) - 1)

\* C26: after the sources are populated, every event that remains in the
\* chronology keeps its time, its event text and its source through
\* post-processing, truncation and rendering.
C26_FieldsFrozenAfterSourceFill ==
    Postprocessed
        => \A p \in 1 .. Len(consolidated_chronology.events) :
              /\ consolidated_chronology.events[p].time = filtered.events[p].time
              /\ consolidated_chronology.events[p].event = filtered.events[p].event
              /\ consolidated_chronology.events[p].source
                    = filtered.events[p].source

\* The stage of the pipeline that ran last, read off the position of
\* generate_answer: the all-sentinel return of line 270 comes to the
\* post-processing with nothing but the merge behind it.
Stage ==
    CASE pc = "merge" -> "Mapping"
      [] pc \in {"remap_input", "remapped"} -> "Merging"
      [] pc = "sort" -> "Extracting"
      [] pc = "dedupe" -> "Sorting"
      [] pc = "fill_source" -> "Deduping"
      [] pc \in {"postprocess", "truncate"} ->
            IF json_answer = Unassigned THEN "Merging" ELSE "Deduping"
      [] pc = "render" -> "Truncating"
      [] pc = "respond" -> "Rendering"
      [] pc = "returned" ->
            IF response = "answer" THEN "Done" ELSE "NoEvents"
      [] OTHER -> "Raised"

\* The stages the state machine of the pipeline lets follow a stage.
StageSuccessors(stage) ==
    CASE stage = "Mapping" -> {"Merging"}
      [] stage = "Merging" -> {"Extracting"}
      [] stage = "Extracting" -> {"NoEvents", "Sorting"}
      [] stage = "Sorting" -> {"Deduping"}
      [] stage = "Deduping" -> {"Truncating"}
      [] stage = "Truncating" -> {"Rendering"}
      [] stage = "Rendering" -> {"Done"}
      [] OTHER -> {}

\* C25: every step of a query stays in its stage or moves to a stage that
\* follows it in Mapping, Merging, Extracting, then NoEvents or Sorting,
\* Deduping, Truncating, Rendering, Done; so no stage runs twice, nothing
\* follows NoEvents, and a run ends nowhere but in NoEvents or Done.
C25_StagesRunInOrder ==
    [][Stage' = Stage \/ Stage' \in StageSuccessors(Stage)]_vars

\* ------------------------------------------------------------ map stage claims
\* Futures whose call ended with a non-empty text.
Survivors == {i \in PromptIds : llm_answer[i] \in {"text", "sentinel"}}

BatchReturned ==
    pc \in {"map_answers", "generate_answer", "returned", "consolidate"}

BatchEnded == BatchReturned \/ pc = "raised"

\* C1: llm_predict_batch returns the surviving responses in the order their
\* prompts were submitted, whatever the order in which the calls completed:
\* results is ordered by prompt index at every moment, and the returned list
\* holds exactly the non-empty responses.
C1_ResultsInSubmissionOrder ==
    /\ \A p, q \in 1 .. Len(results) : p < q => results[p][2] < results[q][2]
    /\ BatchReturned =>
          {results[p] : p \in 1 .. Len(results)} = {Response(i) : i \in Survivors}

\* A batch has returned two responses whose calls completed in the reverse of
\* their submission order.
C1_Witness ==
    /\ BatchReturned
    /\ \E a, b \in 1 .. Len(completion_order) :
          /\ a < b
          /\ completion_order[a] > completion_order[b]
          /\ {completion_order[a], completion_order[b]} \subseteq Survivors
          /\ \E p, q \in 1 .. Len(results) :
                /\ p < q
                /\ results[p] = Response(completion_order[b])
                /\ results[q] = Response(completion_order[a])

\* C2: a generation call that raises or returns an empty response is dropped
\* and never aborts the batch: whenever the batch has ended, it has returned,
\* and it returned the responses of all the other calls.
C2_FailedCallNeverAbortsBatch ==
    BatchEnded =>
        /\ pc # "raised"
        /\ results = [p \in 1 .. Cardinality(Survivors) |->
                        Response(Ascending(Survivors)[p])]

\* C3: the number of generation calls running concurrently never exceeds the
\* configured worker-pool size max_workers.
C3_RunningBoundedByMaxWorkers == Cardinality(Running) <= max_workers

\* C4: after map_answers every document's fragment list holds exactly the
\* surviving responses to that document's own chunks, in chunk order.
C4_FragmentsPairedWithOwnDocument ==
    pc \in {"generate_answer", "returned", "consolidate"} =>
        \A d \in 1 .. Len(document_chunks) :
            map_answers[d] =
                LET own == Ascending({i \in Survivors : DocOfPrompt(i) = d})
                IN [p \in 1 .. Len(own) |-> Chronology(Response(own[p]))]

\* C5: hard barrier: consolidation (generate_answer) starts only when every
\* submitted map call has returned or failed; none is queued or running.
C5_BarrierBeforeConsolidation ==
    pc \in {"generate_answer", "returned", "consolidate"} =>
        /\ submitted = NumPrompts
        /\ \A i \in PromptIds : status[i] = "done"

\* Consolidation has started for a batch of several calls that did not
\* complete in submission order, the first submitted call not being the first
\* to end.
C5_Witness ==
    /\ pc = "generate_answer"
    /\ NumPrompts >= 2
    /\ completion_order[1] # 0
    /\ \A i \in PromptIds : status[i] = "done"

\* The query has ended: by an exception, with the EVENT_NOT_FOUND response,
\* or by going on to the extraction.
QueryEnded == pc \in {"raised", "returned", "consolidate"}

\* C15: when no document contributes content (every map call of the query
\* raised, returned an empty answer or returned the sentinel), the query ends
\* with the EVENT_NOT_FOUND response.
C15_NoContentGivesNoEventsFound ==
    (QueryEnded /\ \A i \in PromptIds : llm_answer[i] # "text")
        => (pc = "returned" /\ response = "EVENT_NOT_FOUND")

====
